---- MODULE Spec2Model ----
(***************************************************************************)
(* A model of tx-util: the RLP codec (src/src/rlp.rs), the typed           *)
(* transaction model and its signer (src/src/transaction.rs) and the       *)
(* recover-address command (src/src/main.rs).                              *)
(*                                                                         *)
(* Octets are the naturals 0..255.  A Vec<u8> / VecDeque<u8> is a sequence *)
(* of octets.  An unsigned integer of a fixed width (U64, U256) is         *)
(* represented by its base-256 digits, most significant first, in a        *)
(* sequence of exactly 8 resp. 32 octets: the integers of the program do   *)
(* not fit the model checker's machine integers, and every use the code    *)
(* makes of them goes through to_be_bytes / from_be_slice.                 *)
(***************************************************************************)
EXTENDS Integers, Sequences, FiniteSets, TLC

VARIABLES
    pc,        \* which operation ran last ("idle" before any)
    item,      \* the RlpItem an operation was given or produced
    bytes,     \* Vec<u8>: the encoder's output / the buffer handed to a decoder
    decoded,   \* outcome of decode_rlp on bytes
    num,       \* the integer (fixed-width digits) handed to a conversion
    obj,       \* the typed object (Eip1559, Eip7702, Authorization) given
    signer,    \* the private key given to sign
    prim,      \* what the external signing primitive returned: r, s, recovery id
    hashed,    \* the octets sign fed to Keccak256
    signed,    \* the object sign returned
    recovered, \* outcome of the recover-address command
    back,      \* outcome of converting a Value back to a bool or an integer
    payload_in, \* the octets a signing command read from standard input
    rehashed,  \* the octets recover-address fed to Keccak256
    authorizers, \* the private keys given for the authorization entries
    failure,   \* the failure a signing operation ended with
    span,      \* how many of the first octets of bytes encode the value to decode
    command_out, \* what sign-tx printed for the transaction sign was given
    text,      \* the text decode-rlp printed
    parsed     \* outcome of parsing text as encode-rlp does

vars == <<pc, item, bytes, decoded, num, obj, signer, prim, hashed, signed, recovered,
          back, payload_in, rehashed, authorizers, failure, span,
          command_out, text, parsed>>

(***************************************************************************)
(* Bounds of the model                                                     *)
(***************************************************************************)
\* octets generated on either side of the 55/56 boundary
Slack == 1
\* short byte strings have 0..MaxShort octets
MaxShort == 2
\* generated lists have at most this many children
MaxChildren == 2
\* scalars are generated with 0..MaxLeadingZeros leading zero octets
MaxLeadingZeros == 2
\* truncated buffers lose 1..MaxCut octets
MaxCut == 2

\* 0..MaxAuthorizers private keys are supplied for the authorization entries
MaxAuthorizers == 3

(***************************************************************************)
(* Sequence helpers                                                        *)
(***************************************************************************)
Fill(n, b) == [i \in 1..n |-> b]

Take(s, n) == SubSeq(s, 1, n)

Drop(s, n) == SubSeq(s, n + 1, Len(s))

\* the value None / Some(x) of an Option
None == [some |-> FALSE]

Some(x) == [some |-> TRUE, val |-> x]

(***************************************************************************)
(* rlp.rs: the value model                                                 *)
(***************************************************************************)
Data(d) == [tag |-> "Data", data |-> d]

List(l) == [tag |-> "List", list |-> l]

\* .into_iter().skip_while(|b| *b == 0x0).collect()
RECURSIVE skip_while_zero(_)
skip_while_zero(s) ==
    IF s = <<>> THEN <<>>
    ELSE IF s[1] = 0 THEN skip_while_zero(Tail(s))
    ELSE s

\* usize::to_be_bytes(): the w base-256 digits of n, most significant first
RECURSIVE to_be_bytes(_, _)
to_be_bytes(n, w) ==
    IF w = 0 THEN <<>>
    ELSE Append(to_be_bytes(n \div 256, w - 1), n % 256)

\* the arm 56.. of the encoder: prefix octet base + len(len), len, payload
long_form(base, payload) ==
    LET len == skip_while_zero(to_be_bytes(Len(payload), 8))
    IN  <<base + Len(len)>> \o len \o payload

\* encode_data with the single-octet test written < 0x7F
encode_data_strict7f(data) ==
    IF Len(data) = 1 /\ data[1] < 127 THEN <<data[1]>>
    ELSE IF Len(data) <= 55 THEN <<128 + Len(data)>> \o data
    ELSE long_form(183, data)

\* the Data arm of impl From<RlpItem> for Vec<u8>
encode_data(data) ==
    IF Len(data) = 1 /\ data[1] <= 127 THEN <<data[1]>>
    ELSE IF Len(data) <= 55 THEN <<128 + Len(data)>> \o data
    ELSE long_form(183, data)

\* encode_list_payload with the short arm written 0..=56
encode_list_payload_56(encoded) ==
    IF Len(encoded) <= 56 THEN <<192 + Len(encoded)>> \o encoded
    ELSE long_form(247, encoded)

\* the match on encoded.len() of the List arm
encode_list_payload(encoded) ==
    IF Len(encoded) <= 55 THEN <<192 + Len(encoded)>> \o encoded
    ELSE long_form(247, encoded)

\* impl From<RlpItem> for Vec<u8>
RECURSIVE encode_rlp(_)
RECURSIVE flat_map_encode(_)
flat_map_encode(list) ==
    IF list = <<>> THEN <<>>
    ELSE encode_rlp(Head(list)) \o flat_map_encode(Tail(list))

encode_rlp(value) ==
    IF value.tag = "Data" THEN encode_data(value.data)
    ELSE encode_list_payload(flat_map_encode(value.list))

(***************************************************************************)
(* rlp.rs: the decoder.  It returns no Result: it either yields an item    *)
(* and leaves the rest of the deque, or panics.                            *)
(***************************************************************************)
Ok(v, rest) == [kind |-> "ok", value |-> v, rest |-> rest]

Panic(m) == [kind |-> "panic", msg |-> m]

\* value.pop_front().expect("no more bytes") on an empty deque
NoMoreBytes == "no more bytes"

\* VecDeque::drain(0..n) with n beyond the deque's length
DrainOutOfRange == "drain: range end out of range"

\* drain that takes what is there when the range ends beyond the deque
drain_clamped(value, n) ==
    IF n > Len(value) THEN [kind |-> "ok", taken |-> value, rest |-> <<>>]
    ELSE [kind |-> "ok", taken |-> Take(value, n), rest |-> Drop(value, n)]

\* value.drain(0..n).collect(): the n first octets and what is left
drain(value, n) ==
    IF n > Len(value) THEN Panic(DrainOutOfRange)
    ELSE [kind |-> "ok", taken |-> Take(value, n), rest |-> Drop(value, n)]

\* len.into_iter().fold(0u64, |a, b| a * 256 + b as u64)
RECURSIVE fold_len(_, _)
fold_len(a, len) ==
    IF len = <<>> THEN a
    ELSE fold_len(a * 256 + Head(len), Tail(len))

\* read_len with the length-of-length taken as byte - (long_base + 1)
read_len_off(byte, short_base, long_base, rest) ==
    IF byte <= long_base THEN [kind |-> "ok", len |-> byte - short_base, rest |-> rest]
    ELSE LET l == drain(rest, byte - long_base - 1)
         IN  IF l.kind = "panic" THEN l
             ELSE [kind |-> "ok", len |-> fold_len(0, l.taken), rest |-> l.rest]

\* read_len that refuses a length field with a leading zero octet or one
\* denoting fewer than 56 octets
read_len_strict(byte, short_base, long_base, rest) ==
    IF byte <= long_base THEN [kind |-> "ok", len |-> byte - short_base, rest |-> rest]
    ELSE LET l == drain(rest, byte - long_base)
         IN  IF l.kind = "panic" THEN l
             ELSE IF Head(l.taken) = 0 \/ fold_len(0, l.taken) < 56
                  THEN Panic("non-canonical length")
             ELSE [kind |-> "ok", len |-> fold_len(0, l.taken), rest |-> l.rest]

\* the inner match computing len: short form (byte - base) or the
\* length-of-length field drained from the deque
read_len(byte, short_base, long_base, rest) ==
    IF byte <= long_base THEN [kind |-> "ok", len |-> byte - short_base, rest |-> rest]
    ELSE LET l == drain(rest, byte - long_base)
         IN  IF l.kind = "panic" THEN l
             ELSE [kind |-> "ok", len |-> fold_len(0, l.taken), rest |-> l.rest]

\* impl From<&mut VecDeque<u8>> for RlpItem
RECURSIVE decode_rlp(_)
RECURSIVE decode_items(_, _)
\* a loop that ends the list at the first child its span does not hold
RECURSIVE decode_items_lenient(_, _)
decode_items_lenient(items, rlp_vals) ==
    IF items = <<>> THEN Ok(List(rlp_vals), <<>>)
    ELSE LET r == decode_rlp(items)
         IN  IF r.kind = "panic" THEN Ok(List(rlp_vals), <<>>)
             ELSE decode_items_lenient(r.rest, Append(rlp_vals, r.value))

\* while !items.is_empty() { rlp_vals.push(Into::<RlpItem>::into(&mut items)); }
decode_items(items, rlp_vals) ==
    IF items = <<>> THEN Ok(List(rlp_vals), <<>>)
    ELSE LET r == decode_rlp(items)
         IN  IF r.kind = "panic" THEN r
             ELSE decode_items(r.rest, Append(rlp_vals, r.value))

decode_rlp(value) ==
    IF value = <<>> THEN Panic(NoMoreBytes)
    ELSE LET byte == Head(value)
             rest == Tail(value)
         IN  IF byte <= 127 THEN Ok(Data(<<byte>>), rest)
             ELSE IF byte <= 191 THEN
                 LET l == read_len(byte, 128, 183, rest)
                 IN  IF l.kind = "panic" THEN l
                     ELSE LET d == drain(l.rest, l.len)
                          IN  IF d.kind = "panic" THEN d
                              ELSE Ok(Data(d.taken), d.rest)
             ELSE
                 LET l == read_len(byte, 192, 247, rest)
                 IN  IF l.kind = "panic" THEN l
                     ELSE LET d == drain(l.rest, l.len)
                          IN  IF d.kind = "panic" THEN d
                              ELSE LET r == decode_items(d.taken, <<>>)
                                   IN  IF r.kind = "panic" THEN r
                                       ELSE Ok(r.value, d.rest)

(***************************************************************************)
(* rlp.rs: conversions of scalars.  An integer is [width, digits]: digits  *)
(* is what to_be_bytes::<width>() returns.                                 *)
(***************************************************************************)
U64(digits) == [width |-> 8, digits |-> digits]

U256(digits) == [width |-> 32, digits |-> digits]

\* U64::from(n) / U256::from(n) of a small natural
U64Of(n) == U64(to_be_bytes(n, 8))

U256Of(n) == U256(to_be_bytes(n, 32))

\* U256::from_be_slice: the octets right-aligned in 32 (more than 32 panic)
U256_from_be_slice(slice) == U256(Fill(32 - Len(slice), 0) \o slice)

\* strip_digits that skips one leading zero octet at most
strip_digits_once(value) ==
    IF value.digits # <<>> /\ value.digits[1] = 0 THEN Tail(value.digits)
    ELSE value.digits

\* value.to_be_bytes::<N>().into_iter().skip_while(|b| *b == 0x0).collect()
strip_digits(value) == skip_while_zero(value.digits)

\* impl From<U64> for RlpItem
U64ToRlp(value) == Data(strip_digits(value))

\* impl From<U256> for RlpItem
U256ToRlp(value) == Data(strip_digits(value))

\* impl From<bool> for RlpItem
BoolToRlp(value) == Data(IF value THEN <<1>> ELSE <<>>)

\* impl From<&[u8]> for RlpItem, impl From<Bytes> for RlpItem
SliceToRlp(value) == Data(value)

\* RlpItem::data: the octets of a Data, a panic on a List
RlpItem_data(value) ==
    IF value.tag = "Data" THEN [kind |-> "ok", value |-> value.data]
    ELSE Panic("not data")

\* RlpItem::list: the children of a List, a panic on a Data
RlpItem_list(value) ==
    IF value.tag = "List" THEN [kind |-> "ok", value |-> value.list]
    ELSE Panic("not a list")

\* a conversion to bool that takes every non-empty string for true
RlpToBool_nonempty(value) ==
    LET d == RlpItem_data(value)
    IN  IF d.kind = "panic" THEN d
        ELSE [kind |-> "ok", value |-> d.value # <<>>]

\* impl From<RlpItem> for bool
RlpToBool(value) ==
    LET d == RlpItem_data(value)
    IN  IF d.kind = "panic" THEN d
        ELSE IF d.value = <<1>> THEN [kind |-> "ok", value |-> TRUE]
        ELSE IF d.value = <<>> THEN [kind |-> "ok", value |-> FALSE]
        ELSE Panic("invalid boolean value")

\* from_be_slice that aligns the octets to the left of the width
from_be_slice_left(width, slice) ==
    IF Len(skip_while_zero(slice)) > width THEN Panic("value too large")
    ELSE [kind |-> "ok",
          value |-> [width |-> width,
                     digits |-> skip_while_zero(slice)
                                \o Fill(width - Len(skip_while_zero(slice)), 0)]]

\* Uint::from_be_slice: the integer the big-endian octets denote, in
\* width octets; a panic when it does not fit
from_be_slice(width, slice) ==
    IF Len(skip_while_zero(slice)) > width THEN Panic("value too large")
    ELSE [kind |-> "ok",
          value |-> [width |-> width,
                     digits |-> Fill(width - Len(skip_while_zero(slice)), 0)
                                \o skip_while_zero(slice)]]

\* impl From<RlpItem> for U64
RlpToU64(value) ==
    LET d == RlpItem_data(value)
    IN  IF d.kind = "panic" THEN d ELSE from_be_slice(8, d.value)

\* impl From<RlpItem> for U256
RlpToU256(value) ==
    LET d == RlpItem_data(value)
    IN  IF d.kind = "panic" THEN d ELSE from_be_slice(32, d.value)

(***************************************************************************)
(* transaction.rs: the typed objects and their conversion to RlpItem       *)
(***************************************************************************)
EIP1559_TX_TYPE == 2

EIP7702_TX_TYPE == 4

AUTHORIZATION_MAGIC == 5

Signature(y_parity, r, s) == [y_parity |-> y_parity, r |-> r, s |-> s]

AccessListItem(address, storage_keys) == [address |-> address, storage_keys |-> storage_keys]

Authorization(chain_id, address, nonce, signature) ==
    [variant |-> "Authorization", chain_id |-> chain_id, address |-> address,
     nonce |-> nonce, signature |-> signature]

\* SignatureToRlp without the s scalar
SignatureToRlp_short(value) ==
    <<BoolToRlp(value.y_parity), U256ToRlp(value.r)>>

\* impl From<Signature> for Vec<RlpItem>
SignatureToRlp(value) ==
    <<BoolToRlp(value.y_parity), U256ToRlp(value.r), U256ToRlp(value.s)>>

\* AccessListToRlp with addresses and keys stripped like integers
AccessListToRlp_minimized(value) ==
    List([i \in 1..Len(value) |->
        List(<<Data(skip_while_zero(value[i].address)),
               List([j \in 1..Len(value[i].storage_keys) |->
                        Data(skip_while_zero(value[i].storage_keys[j]))])>>)])

\* impl From<Vec<AccessListItem>> for RlpItem
AccessListToRlp(value) ==
    List([i \in 1..Len(value) |->
        List(<<Data(value[i].address),
               List([j \in 1..Len(value[i].storage_keys) |->
                        Data(value[i].storage_keys[j])])>>)])

\* AuthorizationToRlp with the nonce pushed as a scalar (absent: empty)
AuthorizationToRlp_flat(value) ==
    List(<<U256ToRlp(value.chain_id),
           SliceToRlp(value.address),
           IF value.nonce.some THEN U64ToRlp(value.nonce.val) ELSE Data(<<>>)>>
         \o (IF value.signature.some THEN SignatureToRlp(value.signature.val) ELSE <<>>))

\* impl From<Authorization> for RlpItem
AuthorizationToRlp(value) ==
    List(<<U256ToRlp(value.chain_id),
           SliceToRlp(value.address),
           List(IF value.nonce.some THEN <<U64ToRlp(value.nonce.val)>> ELSE <<>>)>>
         \o (IF value.signature.some THEN SignatureToRlp(value.signature.val) ELSE <<>>))

\* impl From<Vec<Authorization>> for RlpItem
AuthorizationListToRlp(value) ==
    List([i \in 1..Len(value) |-> AuthorizationToRlp(value[i])])

\* the nine pushes both transaction variants start with
CommonItems(value) ==
    <<U256ToRlp(value.chain_id),
      U64ToRlp(value.nonce),
      U256ToRlp(value.max_priority_fee_per_gas),
      U256ToRlp(value.max_fee_per_gas),
      U256ToRlp(value.gas_limit),
      SliceToRlp(value.destination),
      U256ToRlp(value.amount),
      SliceToRlp(value.data),
      AccessListToRlp(value.access_list)>>

\* impl From<Eip1559> for RlpItem
Eip1559ToRlp(value) ==
    List(CommonItems(value)
         \o (IF value.signature.some THEN SignatureToRlp(value.signature.val) ELSE <<>>))

\* impl From<Eip7702> for RlpItem
Eip7702ToRlp(value) ==
    List(CommonItems(value)
         \o <<AuthorizationListToRlp(value.authorization_list)>>
         \o (IF value.signature.some THEN SignatureToRlp(value.signature.val) ELSE <<>>))

\* the Into<RlpItem> of whichever typed object value is
ToRlp(value) ==
    IF value.variant = "Eip1559" THEN Eip1559ToRlp(value)
    ELSE IF value.variant = "Eip7702" THEN Eip7702ToRlp(value)
    ELSE AuthorizationToRlp(value)

(***************************************************************************)
(* transaction.rs: signing.  Keccak256 and the secp256k1 primitives are    *)
(* external: the hash is kept as the octets it was computed from, and what *)
(* sign_prehash returns (r and s as 32 octets each, a recovery id 0..3) is *)
(* an input p of the operators below.                                      *)
(***************************************************************************)
Keccak256(payload) == [keccak |-> payload]

\* the order of the secp256k1 group, big-endian
SECP256K1_ORDER ==
    <<255, 255, 255, 255, 255, 255, 255, 255, 255, 255, 255, 255, 255, 255, 255, 254,
      186, 174, 220, 230, 175, 72, 160, 59, 191, 210, 94, 140, 208, 54, 65, 65>>

\* a < b for two octet strings of the same length read as big-endian numbers
RECURSIVE BELess(_, _)
BELess(a, b) ==
    IF a = <<>> THEN FALSE
    ELSE IF a[1] # b[1] THEN a[1] < b[1]
    ELSE BELess(Tail(a), Tail(b))

\* a 32-octet string is a scalar the curve library accepts: non-zero and
\* below the group order
NonZeroScalar(x) == x # Fill(32, 0) /\ BELess(x, SECP256K1_ORDER)

\* SigningKey::from_slice(&signer) is Ok
SigningKey_from_slice_ok(key) == Len(key) = 32 /\ NonZeroScalar(key)

\* RecoveryId::is_y_odd
is_y_odd(recovery_id) == recovery_id % 2 = 1

\* fn sign_payload(payload, magic, signer) -> Signature
sign_payload(payload, magic, key, p) ==
    LET payload1 == <<magic>> \o payload
    IN  IF ~SigningKey_from_slice_ok(key) THEN Panic("unwrap: SigningKey::from_slice")
        ELSE [kind |-> "ok",
              hashed |-> payload1,
              signature |-> Signature(is_y_odd(p.recovery_id),
                                      U256_from_be_slice(p.r),
                                      U256_from_be_slice(p.s))]

\* the body shared by the three sign methods: clear the signature, convert,
\* encode, sign_payload with the magic, set the signature
sign_with(self, rlp, magic, key, p) ==
    LET sp == sign_payload(encode_rlp(rlp), magic, key, p)
    IN  IF sp.kind = "panic" THEN sp
        ELSE [kind |-> "ok",
              hashed |-> sp.hashed,
              value |-> [self EXCEPT !.signature = Some(sp.signature)]]

\* Authorization::sign
Authorization_sign(self, key, p) ==
    LET auth == [self EXCEPT !.signature = None]
    IN  sign_with(auth, AuthorizationToRlp(auth), AUTHORIZATION_MAGIC, key, p)

\* Eip1559::sign that signs over self as given
Eip1559_sign_kept(self, key, p) ==
    sign_with(self, Eip1559ToRlp(self), EIP1559_TX_TYPE, key, p)

\* Eip1559::sign
Eip1559_sign(self, key, p) ==
    LET tx == [self EXCEPT !.signature = None]
    IN  sign_with(tx, Eip1559ToRlp(tx), EIP1559_TX_TYPE, key, p)

\* Eip7702::sign
Eip7702_sign(self, key, p) ==
    LET tx == [self EXCEPT !.signature = None]
    IN  sign_with(tx, Eip7702ToRlp(tx), EIP7702_TX_TYPE, key, p)

\* the sign method of whichever typed object self is
sign(self, key, p) ==
    IF self.variant = "Eip1559" THEN Eip1559_sign(self, key, p)
    ELSE IF self.variant = "Eip7702" THEN Eip7702_sign(self, key, p)
    ELSE Authorization_sign(self, key, p)

\* the octet put before the encoding of self: its transaction type, or the
\* authorization magic
MagicOf(self) ==
    IF self.variant = "Eip1559" THEN EIP1559_TX_TYPE
    ELSE IF self.variant = "Eip7702" THEN EIP7702_TX_TYPE
    ELSE AUTHORIZATION_MAGIC

(***************************************************************************)
(* Signing an EIP-7702 transaction together with its authorization         *)
(* entries (encode-tx --signer --authorizer of the integration tests).     *)
(* The sources at hand hold no code for it: it is written from section 4.3 *)
(* of the specification, on top of Authorization::sign and Eip7702::sign.  *)
(* prims maps each private key to what the signing primitive answers.      *)
(***************************************************************************)
\* the positions of the entries that lack a signature
Unsigned(auths) == {i \in 1..Len(auths) : auths[i].signature = None}

\* the position of entry i among the entries that lack a signature
Rank(auths, i) == Cardinality({j \in Unsigned(auths) : j <= i})

AuthorizerCountMismatch == [kind |-> "error", error |-> "AuthorizerCountMismatch"]

\* the entries, each unsigned one signed with the key of its rank
sign_entries(auths, keys, prims) ==
    [i \in 1..Len(auths) |->
        IF i \in Unsigned(auths) /\ Rank(auths, i) <= Len(keys)
        THEN Authorization_sign(auths[i], keys[Rank(auths, i)], prims[keys[Rank(auths, i)]])
        ELSE [kind |-> "ok", value |-> auths[i]]]

\* signing that signs as many entries as there are keys, whatever the count
sign_with_authorizers_partial(self, key, keys, prims) ==
    LET entries == sign_entries(self.authorization_list, keys, prims)
        failed == {i \in 1..Len(entries) : entries[i].kind = "panic"}
    IN  IF failed # {} THEN entries[CHOOSE i \in failed : \A j \in failed : i <= j]
        ELSE Eip7702_sign([self EXCEPT !.authorization_list =
                               [i \in 1..Len(entries) |-> entries[i].value]],
                          key, prims[key])

\* sign the unsigned entries with the keys, position by position, then the
\* transaction with key; a count of keys that is not the count of unsigned
\* entries is AuthorizerCountMismatch
sign_with_authorizers(self, key, keys, prims) ==
    LET entries == sign_entries(self.authorization_list, keys, prims)
        failed == {i \in 1..Len(entries) : entries[i].kind = "panic"}
    IN  IF Len(keys) # Cardinality(Unsigned(self.authorization_list))
        THEN AuthorizerCountMismatch
        ELSE IF failed # {} THEN entries[CHOOSE i \in failed : \A j \in failed : i <= j]
        ELSE Eip7702_sign([self EXCEPT !.authorization_list =
                               [i \in 1..Len(entries) |-> entries[i].value]],
                          key, prims[key])

(***************************************************************************)
(* main.rs: the recover-address command                                    *)
(***************************************************************************)
\* the last 20 octets of the Keccak256 of the public key of a private key
AddressOf(key) == [address_of |-> key]

\* any address but the signer's
OtherAddress == [address_of |-> "another key"]

\* VerifyingKey::recover_from_prehash(&hash, &signature, recid): the key
\* that signed, when hash, r, s and the recovery id are those of the
\* signing recorded in made; otherwise an error or some other key
recover_from_prehash(hash, r, s, recid, made) ==
    IF /\ hash = Keccak256(made.hashed)
       /\ r = made.p.r
       /\ s = made.p.s
       /\ recid = made.p.recovery_id
    THEN {[kind |-> "ok", address |-> AddressOf(made.key)]}
    ELSE {Panic("unwrap: recover_from_prehash"), [kind |-> "ok", address |-> OtherAddress]}

\* a split that takes the children a short list lacks for empty strings
split_signature_padded(ast) ==
    LET l == RlpItem_list(ast)
    IN  IF l.kind = "panic" THEN l
        ELSE
        LET padded == Fill(3 - Len(l.value), Data(<<>>)) \o l.value
            signature == Drop(padded, Len(padded) - 3)
        IN  IF \E i \in 1..3 : RlpItem_data(signature[i]).kind = "panic"
            THEN Panic("not data")
            ELSE [kind |-> "ok",
                  payload |-> Take(padded, Len(padded) - 3),
                  y |-> IF signature[1].data = <<>> THEN 0 ELSE 1,
                  r |-> signature[2].data,
                  s |-> signature[3].data]

\* ast.list().split_at(ast.list().len() - 3), then data() of each of the
\* last three children: the payload children, y, r and s, or a panic
split_signature(ast) ==
    LET l == RlpItem_list(ast)
    IN  IF l.kind = "panic" THEN l
        ELSE IF Len(l.value) < 3 THEN Panic("len - 3")
        ELSE
        LET signature == Drop(l.value, Len(l.value) - 3)
        IN  IF \E i \in 1..3 : RlpItem_data(signature[i]).kind = "panic"
            THEN Panic("not data")
            ELSE [kind |-> "ok",
                  payload |-> Take(l.value, Len(l.value) - 3),
                  y |-> IF signature[1].data = <<>> THEN 0 ELSE 1,
                  r |-> signature[2].data,
                  s |-> signature[3].data]

\* the octets Commands::RecoverAddress feeds to Keccak256: the type octet
\* and the encoding of the list of the payload children; None when it
\* panics before
recover_hashed(stdin) ==
    IF stdin = <<>> THEN None
    ELSE
    LET ast == decode_rlp(Tail(stdin))
    IN  IF ast.kind = "panic" THEN None
        ELSE IF split_signature(ast.value).kind = "panic" THEN None
        ELSE Some(<<Head(stdin)>> \o encode_rlp(List(split_signature(ast.value).payload)))

\* Commands::RecoverAddress on the octets of stdin: the set of its possible
\* outcomes, a panic or the hash and address it prints
recover_address(stdin, made) ==
    IF stdin = <<>> THEN {Panic("unwrap: pop_front")}
    ELSE
    LET ast == decode_rlp(Tail(stdin))
    IN  IF ast.kind = "panic" THEN {ast}
        ELSE IF split_signature(ast.value).kind = "panic" THEN {split_signature(ast.value)}
        ELSE
        LET sig == split_signature(ast.value)
            hash == Keccak256(recover_hashed(stdin).val)
        IN  IF Len(sig.r) # 32 \/ Len(sig.s) # 32 THEN {Panic("FieldBytes::from_slice")}
            ELSE IF ~NonZeroScalar(sig.r) \/ ~NonZeroScalar(sig.s)
                 THEN {Panic("unwrap: from_scalars")}
            ELSE {IF k.kind = "panic" THEN k
                  ELSE [kind |-> "ok", hash |-> hash, address |-> k.address] :
                    k \in recover_from_prehash(hash, sig.r, sig.s, sig.y, made)}

(***************************************************************************)
(* rlp.rs, peg.rs: the text form of a value.  A text is a sequence of      *)
(* characters, each a string of length one.                                *)
(***************************************************************************)
HexChars == <<"0", "1", "2", "3", "4", "5", "6", "7", "8", "9", "a", "b", "c", "d", "e", "f">>

\* hex::encode: two lowercase digits for each octet
RECURSIVE hex_encode(_)
hex_encode(data) ==
    IF data = <<>> THEN <<>>
    ELSE <<HexChars[(Head(data) \div 16) + 1], HexChars[(Head(data) % 16) + 1]>>
             \o hex_encode(Tail(data))

\* a trim that drops nothing
trim_start_matches_kept(chars, c) == chars

\* str::trim_start_matches(c): the text without its leading characters c
RECURSIVE trim_start_matches(_, _)
trim_start_matches(chars, c) ==
    IF chars # <<>> /\ Head(chars) = c THEN trim_start_matches(Tail(chars), c)
    ELSE chars

\* fmt_rlp of impl fmt::Debug for RlpItem: the item at the given depth
RECURSIVE fmt_rlp(_, _)
RECURSIVE fmt_children(_, _)
fmt_children(items, depth) ==
    IF items = <<>> THEN <<>>
    ELSE fmt_rlp(Head(items), depth + 2) \o <<"\n">> \o fmt_children(Tail(items), depth)

fmt_rlp(rlp, depth) ==
    IF rlp.tag = "Data"
    THEN IF rlp.data = <<>> THEN Fill(depth, " ") \o <<"0", "x">>
         ELSE Fill(depth, " ") \o <<"0", "x">> \o trim_start_matches(hex_encode(rlp.data), "0")
    ELSE IF rlp.list = <<>> THEN Fill(depth, " ") \o <<"[", "]">>
         ELSE Fill(depth, " ") \o <<"[", "\n">> \o fmt_children(rlp.list, depth)
                  \o Fill(depth, " ") \o <<"]">>

\* WHITESPACE = _{ " " | "\t" | NEWLINE }
WHITESPACE == {" ", "\t", "\n", "\r"}

\* ASCII_HEX_DIGIT, lowercase
ASCII_HEX_DIGIT == {HexChars[i] : i \in 1..16}

HexValue(c) == (CHOOSE i \in 1..16 : HexChars[i] = c) - 1

\* hex::decode of an even number of digits
RECURSIVE hex_decode(_)
hex_decode(chars) ==
    IF chars = <<>> THEN <<>>
    ELSE <<HexValue(chars[1]) * 16 + HexValue(chars[2])>> \o hex_decode(Tail(Tail(chars)))

\* the length of the longest prefix of chars made of characters of set
RECURSIVE PrefixLen(_, _)
PrefixLen(chars, set) ==
    IF chars # <<>> /\ Head(chars) \in set THEN 1 + PrefixLen(Tail(chars), set) ELSE 0

\* str::trim: the text without the whitespace at its two ends
RECURSIVE trim_end(_)
trim_end(chars) ==
    IF chars # <<>> /\ chars[Len(chars)] \in WHITESPACE THEN trim_end(Take(chars, Len(chars) - 1))
    ELSE chars

trim(chars) == trim_end(Drop(chars, PrefixLen(chars, WHITESPACE)))

\* Rule::Data of rlp_ast: the digits after 0x, left-padded with one 0 when
\* their number is odd, as octets
rlp_ast_data(val) ==
    IF Len(val) = 0 THEN Data(<<>>)
    ELSE IF Len(val) % 2 # 0 THEN Data(hex_decode(<<"0">> \o val))
    ELSE Data(hex_decode(val))

ParserFailure == Panic("parser failure")

\* the grammar's Data | List at the head of chars, and rlp_ast of it: the
\* value and the text left, or the parser's failure
RECURSIVE parse_item(_)
RECURSIVE parse_more(_, _)
\* ( WHITESPACE + ~ ( Data | List ) ) * ~ WHITESPACE * ~ "]"
parse_more(chars, items) ==
    LET ws == PrefixLen(chars, WHITESPACE)
        after == Drop(chars, ws)
    IN  IF after = <<>> THEN ParserFailure
        ELSE IF Head(after) = "]" THEN Ok(List(items), Tail(after))
        ELSE IF ws = 0 THEN ParserFailure
        ELSE LET r == parse_item(after)
             IN  IF r.kind = "panic" THEN r
                 ELSE parse_more(r.rest, Append(items, r.value))

parse_item(chars) ==
    IF Len(chars) >= 2 /\ chars[1] = "0" /\ chars[2] = "x"
    THEN LET n == PrefixLen(Drop(chars, 2), ASCII_HEX_DIGIT)
         IN  Ok(rlp_ast_data(SubSeq(chars, 3, 2 + n)), Drop(chars, 2 + n))
    ELSE IF chars # <<>> /\ chars[1] = "["
    THEN LET after == Drop(chars, 1 + PrefixLen(Tail(chars), WHITESPACE))
         IN  IF after = <<>> THEN ParserFailure
             ELSE IF Head(after) = "]" THEN Ok(List(<<>>), Tail(after))
             ELSE LET r == parse_item(after)
                  IN  IF r.kind = "panic" THEN r
                      ELSE parse_more(r.rest, <<r.value>>)
    ELSE ParserFailure

\* impl TryFrom<&str> for RlpItem: RawTx = { SOI ~ ( Data | List ) ~ EOI }
try_from_str(chars) ==
    LET r == parse_item(Drop(chars, PrefixLen(chars, WHITESPACE)))
    IN  IF r.kind = "panic" THEN r
        ELSE IF Drop(r.rest, PrefixLen(r.rest, WHITESPACE)) # <<>> THEN ParserFailure
        ELSE [kind |-> "ok", value |-> r.value]

(***************************************************************************)
(* main.rs: the sign-tx and sign-auth commands.  They sign the octets of   *)
(* stdin as given and append y, r, s to the list decoded from them.        *)
(***************************************************************************)
\* RlpItem::Data(if recovery_id.to_byte() == 0x0 { vec![] } else { vec![0x1] })
command_y(recovery_id) == Data(IF recovery_id = 0 THEN <<>> ELSE <<1>>)

\* a key check that leaves out the length
command_key_any_length(pk) ==
    IF \A i \in 1..Len(pk) : pk[i] = 0 THEN Panic("unwrap: SigningKey::from_slice")
    ELSE IF Len(pk) = 32 /\ ~SigningKey_from_slice_ok(pk)
         THEN Panic("unwrap: SigningKey::from_slice")
    ELSE [kind |-> "ok"]

\* assert!(pk.len() == 32); SigningKey::from_slice(&pk).unwrap()
command_key(pk) ==
    IF Len(pk) # 32 THEN Panic("assertion failed: pk.len() == 32")
    ELSE IF ~SigningKey_from_slice_ok(pk) THEN Panic("unwrap: SigningKey::from_slice")
    ELSE [kind |-> "ok"]

\* what both commands do once the hash is made: the key, the signature
\* children, the list decoded from rlp, its re-encoding with y, r, s added
command_sign(rlp, pk, p, format) ==
    IF command_key(pk).kind = "panic" THEN command_key(pk)
    ELSE
    LET ast == decode_rlp(rlp)
    IN  IF ast.kind = "panic" THEN ast
        ELSE IF ast.value.tag # "List" THEN Panic(format)
        ELSE [kind |-> "ok",
              bytes |-> encode_rlp(List(ast.value.list
                                        \o <<command_y(p.recovery_id), Data(p.r), Data(p.s)>>))]

\* Commands::SignTx: hashed is what it feeds to Keccak256, outcome the
\* octets it prints or the panic it ends with
sign_tx(stdin, pk, p) ==
    LET res == IF command_key(pk).kind = "panic" THEN command_key(pk)
               ELSE IF stdin = <<>> THEN Panic("unwrap: pop_front")
               ELSE command_sign(Tail(stdin), pk, p, "invalid tx format")
    IN  [hashed |-> stdin,
         outcome |-> IF res.kind = "panic" THEN res
                     ELSE [kind |-> "ok", bytes |-> <<Head(stdin)>> \o res.bytes]]

\* Commands::SignAuth
sign_auth(stdin, pk, magic, p) ==
    [hashed |-> <<magic>> \o stdin,
     outcome |-> command_sign(stdin, pk, p, "invalid auth format")]

(***************************************************************************)
(* Inputs                                                                  *)
(***************************************************************************)
\* 0x00, 0x01, 0x7F, 0x80, 0xFF
Octets == {0, 1, 127, 128, 255}

\* lengths of generated byte strings: short ones, both sides of 55/56, and
\* both sides of the first length that needs a two-octet length field
DataLens == (0..MaxShort) \cup ((55 - Slack)..(56 + Slack)) \cup {255, 256}

DataPool ==
    {Data(Fill(n, b)) : n \in DataLens, b \in Octets}
        \cup {Data(<<0, 1>>), Data(<<0, 0, 128>>), Data(<<127, 0, 255, 0>>)}

\* children of generated lists: their encodings make list payloads that
\* fall on both sides of 55/56
ChildLens == {0, 1} \cup ((54 - Slack)..(55 + Slack))

ChildPool == {Data(Fill(n, 1)) : n \in ChildLens} \cup {Data(<<128>>)}

RECURSIVE SeqsUpTo(_, _)
SeqsUpTo(S, n) ==
    IF n = 0 THEN {<<>>}
    ELSE LET shorter == SeqsUpTo(S, n - 1)
         IN  shorter \cup {Append(s, x) : s \in {t \in shorter : Len(t) = n - 1}, x \in S}

\* lists of byte strings
Lists1 == {List(l) : l \in SeqsUpTo(ChildPool, MaxChildren)}

\* lists of many one-octet children: the number of children and the payload
\* length fall on different sides of 55/56
ManyLists == {List(Fill(k, Data(<<b>>))) : k \in (28 - Slack)..(28 + Slack) \cup (55 - Slack)..(56 + Slack),
                                            b \in {1, 128}}

\* lists of lists
Lists2 == {List(<<a>>) : a \in Lists1} \cup {List(<<List(<<a>>), a, List(<<>>)>>) : a \in Lists1}

Values == DataPool \cup Lists1 \cup ManyLists \cup Lists2

\* values handed to the conversion to bool: the two a bool converts to,
\* other strings of one octet, longer strings, lists
BoolSources ==
    {Data(<<b>>) : b \in Octets \cup {2}} \cup {Data(Fill(n, 1)) : n \in 0..(MaxShort + 1)}
    \cup Lists1

\* digits of w octets: 0, the maximum, values with few or many leading
\* zero octets, and values with zero octets after the first non-zero one
ScalarDigits(w) ==
    {Fill(z, 0) \o Fill(w - z, b) :
        z \in (0..MaxLeadingZeros) \cup ((w - MaxLeadingZeros)..w), b \in {1, 128, 255}}
    \cup {Fill(z, 0) \o <<1>> \o Fill(w - z - 1, 0) : z \in 0..MaxLeadingZeros}

U64Inputs == {U64(d) : d \in ScalarDigits(8)}

U256Inputs == {U256(d) : d \in ScalarDigits(32)}

\* 0x695461EF560Fa4d3a3e7332c9bfcEC261c11a1B6
DestinationA ==
    <<105, 84, 97, 239, 86, 15, 164, 211, 163, 231, 51, 44, 155, 252, 236, 38, 28, 17, 161, 182>>

\* a 20-octet address with leading zero octets
AddressZ == <<0, 0>> \o Fill(18, 171)

\* 32-octet storage keys: 0x00..03 and 0xff..ff
KeyThree == Fill(31, 0) \o <<3>>

KeyFull == Fill(32, 255)

SignatureA == Signature(TRUE, U256(Fill(32, 82)), U256(Fill(32, 90)))

\* a signature whose r has a leading zero octet and whose s is small
SignatureZ == Signature(FALSE, U256(<<0>> \o Fill(31, 17)), U256Of(7))

Signatures == {None, Some(SignatureA), Some(SignatureZ)}

AccessLists ==
    {<<>>,
     <<AccessListItem(DestinationA, <<KeyThree>>)>>,
     <<AccessListItem(AddressZ, <<>>), AccessListItem(DestinationA, <<KeyThree, KeyFull>>)>>}

Authorizations ==
    {Authorization(c, a, n, sg) :
        c \in {U256Of(0), U256Of(1)},
        a \in {DestinationA, AddressZ},
        n \in {None, Some(U64Of(0)), Some(U64Of(2)), Some(U64(Fill(8, 255)))},
        sg \in Signatures}

AuthorizationLists ==
    {<<>>,
     <<Authorization(U256Of(1), AddressZ, None, None)>>,
     <<Authorization(U256Of(0), DestinationA, Some(U64Of(0)), Some(SignatureZ)),
       Authorization(U256Of(1), AddressZ, Some(U64Of(2)), None)>>}

\* chain id, nonce, amount and data: those of the repository's test
\* transaction, and others with zero and maximal scalars
Profiles ==
    {[chain_id |-> U256Of(1), nonce |-> U64Of(0), amount |-> U256Of(0), data |-> <<>>],
     [chain_id |-> U256Of(0), nonce |-> U64Of(10), amount |-> U256(Fill(32, 255)), data |-> <<0, 169>>],
     [chain_id |-> U256Of(1), nonce |-> U64Of(10), amount |-> U256Of(0), data |-> Fill(60, 169)]}

\* the fields both transaction variants have; the three fee fields are
\* those of the repository's test transaction, so every scalar child differs
CommonFields ==
    {[chain_id |-> f.chain_id, nonce |-> f.nonce,
      max_priority_fee_per_gas |-> U256Of(373223425),
      max_fee_per_gas |-> U256(Fill(27, 0) \o <<8, 21, 39, 151, 76>>),
      gas_limit |-> U256Of(63221),
      destination |-> d, amount |-> f.amount, data |-> f.data, access_list |-> al,
      signature |-> sg] :
        f \in Profiles,
        d \in {DestinationA, AddressZ},
        al \in AccessLists,
        sg \in Signatures}

Eip1559(f) ==
    [variant |-> "Eip1559", chain_id |-> f.chain_id, nonce |-> f.nonce,
     max_priority_fee_per_gas |-> f.max_priority_fee_per_gas,
     max_fee_per_gas |-> f.max_fee_per_gas, gas_limit |-> f.gas_limit,
     destination |-> f.destination, amount |-> f.amount, data |-> f.data,
     access_list |-> f.access_list, signature |-> f.signature]

Eip7702(f, auths) ==
    [variant |-> "Eip7702", chain_id |-> f.chain_id, nonce |-> f.nonce,
     max_priority_fee_per_gas |-> f.max_priority_fee_per_gas,
     max_fee_per_gas |-> f.max_fee_per_gas, gas_limit |-> f.gas_limit,
     destination |-> f.destination, amount |-> f.amount, data |-> f.data,
     access_list |-> f.access_list, authorization_list |-> auths,
     signature |-> f.signature]

Transactions ==
    {Eip1559(f) : f \in CommonFields}
        \cup {Eip7702(f, auths) : f \in CommonFields, auths \in AuthorizationLists}

Objects == Transactions \cup Authorizations

\* the objects that are signed: unsigned and already signed, with and
\* without access list, authorization list and nonce
SignInputs ==
    {o \in Transactions :
        /\ o.chain_id = U256Of(1)
        /\ o.nonce = U64Of(0)
        /\ o.destination = DestinationA
        /\ o.signature # Some(SignatureA)
        /\ Len(o.access_list) # 1
        /\ o.variant = "Eip7702" => o.access_list = <<>>}
    \cup {o \in Authorizations :
            /\ o.chain_id = U256Of(1)
            /\ o.address = AddressZ
            /\ o.signature # Some(SignatureA)
            /\ o.nonce \in {None, Some(U64Of(0))}}

\* private keys: two the curve library accepts
Keys == {Fill(32, 52), <<0>> \o Fill(31, 7)}

\* and four it refuses: 31 octets, 33 octets, zero, not below the order
BadKeys == {Fill(31, 52), Fill(33, 52), Fill(32, 0), Fill(32, 255)}

\* the EIP-7702 transactions signed together with their authorization
\* entries: no entry, unsigned entries only, signed and unsigned ones
BulkAuthorizationLists ==
    {<<>>,
     <<Authorization(U256Of(1), AddressZ, None, None)>>,
     <<Authorization(U256Of(1), DestinationA, Some(U64Of(2)), None),
       Authorization(U256Of(1), AddressZ, None, None)>>,
     <<Authorization(U256Of(0), DestinationA, Some(U64Of(0)), Some(SignatureZ)),
       Authorization(U256Of(1), AddressZ, Some(U64Of(2)), None)>>,
     <<Authorization(U256Of(1), AddressZ, None, None),
       Authorization(U256Of(0), DestinationA, Some(U64Of(0)), Some(SignatureZ)),
       Authorization(U256Of(1), AddressZ, Some(U64Of(2)), None)>>}

BulkInputs ==
    {Eip7702(f, auths) :
        f \in {g \in CommonFields :
                  /\ g.chain_id = U256Of(1) /\ g.nonce = U64Of(0)
                  /\ g.destination = DestinationA /\ g.access_list = <<>>
                  /\ g.signature = None},
        auths \in BulkAuthorizationLists}

\* what sign_prehash can return: r and s of 32 octets each, with leading
\* zero octets or none, and a recovery id
PrimResults ==
    {[r |-> Fill(z, 0) \o Fill(32 - z, 17), s |-> sd, recovery_id |-> id] :
        z \in 0..MaxLeadingZeros,
        sd \in {Fill(32, 34), <<0>> \o Fill(31, 34)},
        id \in 0..3}

\* the signing primitive as a function of the key: different keys give
\* different signatures
PrimMaps ==
    {[k \in Keys |-> [r |-> Fill(z, 0) \o Fill(32 - z, k[2]),
                      s |-> Fill(32, 34),
                      recovery_id |-> (k[1] + id) % 2]] : z \in {0, 1}, id \in {0, 1}}

\* an encoding together with the value its prefixes describe
Encoding(buf, value) == [buf |-> buf, value |-> value]

\* long forms no encoder produces: a length field of 1 + z octets, z of
\* them leading zeros, for a payload of n octets 0x01
LongForms ==
    {[z |-> z, n |-> n] : z \in 0..MaxLeadingZeros, n \in (0..MaxShort) \cup {55, 56}}
        \ {[z |-> 0, n |-> 56]}

\* well-formed encodings that are not canonical
NonCanonical ==
    {Encoding(<<129, b>>, Data(<<b>>)) : b \in {0, 1, 127}}
    \cup {Encoding(<<184 + f.z>> \o Fill(f.z, 0) \o <<f.n>> \o Fill(f.n, 1),
                   Data(Fill(f.n, 1))) : f \in LongForms}
    \cup {Encoding(<<248 + f.z>> \o Fill(f.z, 0) \o <<f.n>> \o Fill(f.n, 1),
                   List(Fill(f.n, Data(<<1>>)))) : f \in LongForms}
    \cup {Encoding(<<194, 129, 5>>, List(<<Data(<<5>>)>>)),
          Encoding(<<196, 184, 2, 7, 7>>, List(<<Data(<<7, 7>>)>>)),
          Encoding(<<191, 0, 0, 0, 0, 0, 0, 0, 1, 200>>, Data(<<200>>))}

\* encodings the encoder produces
Canonical ==
    {Encoding(encode_rlp(v), v) :
        v \in {d \in DataPool : Len(d.data) <= 56} \cup Lists1
               \cup {List(<<a, List(<<>>)>>) : a \in Lists1}}

\* what follows the encoding in the cursor: nothing, octets that would
\* decode as further values, an octet that declares more than there is
Followers == {<<>>, <<1>>, <<128, 192>>, <<184>>}

\* strings printed as text: empty, with a first octet that is zero, that
\* has a zero high digit, or neither; two 20-octet addresses
TextData ==
    {Data(d) : d \in {<<>>, <<0>>, <<1>>, <<10>>, <<16>>, <<255>>, <<0, 0>>, <<0, 1>>,
                      <<0, 16>>, <<1, 0>>, <<10, 188>>, <<171, 0, 0>>,
                      <<0>> \o Fill(19, 171), DestinationA}}

\* values printed as text: strings, lists of strings, lists of lists
TextValues ==
    LET pool == {Data(<<>>), Data(<<0>>), Data(<<0, 1>>), Data(<<10, 188>>)}
        lists == {List(l) : l \in SeqsUpTo(pool, MaxChildren)}
    IN  TextData \cup lists
            \cup {List(<<a, Data(<<1>>), List(<<a>>)>>) : a \in lists}

\* stdin of recover-address that no signing made: a type octet and the
\* encoding of a string, of a list of 0, 1 or 2 children, of a list with a
\* list among its last three children, and of lists of three strings or more
RawEnvelopes ==
    LET y == Data(<<1>>)
        r == Data(Fill(32, 17))
        s == Data(Fill(32, 34))
        l == List(<<>>)
        d == Data(<<5>>)
    IN  {<<t>> \o encode_rlp(v) :
            t \in {EIP1559_TX_TYPE, EIP7702_TX_TYPE},
            v \in {Data(<<>>), Data(<<1, 1>>), Data(Fill(60, 1)),
                   List(<<>>), List(<<r>>), List(<<r, s>>), List(<<l, l>>),
                   List(<<l, r, s>>), List(<<y, l, s>>), List(<<y, r, l>>),
                   List(<<d, l, r, s>>), List(<<d, d, y, r, List(<<s>>)>>),
                   List(<<l, y, r, s>>), List(<<y, r, s>>), List(<<d, Data(<<>>), r, s>>),
                   List(<<y, Data(Fill(31, 17)), s>>), List(<<y, Data(<<>>), Data(<<>>)>>)}}

\* no signing is on record
NoSigning == [key |-> <<>>, hashed |-> <<>>, p |-> [r |-> <<>>, s |-> <<>>, recovery_id |-> 0]]

\* what sign_prehash answers to the commands
CommandPrims == {p \in PrimResults : p.s = Fill(32, 34)}

\* encodings of lists no encoder produces: a long form for a short
\* payload, a length field with a leading zero octet, a child in the
\* two-octet form of a single octet
NonCanonicalLists == {<<248, 0>>, <<248, 2, 1, 1>>, <<249, 0, 3, 1, 128, 1>>, <<194, 129, 5>>}

\* stdin of sign-tx: envelopes of unsigned transactions; a type octet and
\* a non-canonical list; a canonical list and further octets; no list
SignTxInputs ==
    {<<MagicOf(o)>> \o encode_rlp(ToRlp(o)) :
        o \in {t \in SignInputs : /\ t.variant \in {"Eip1559", "Eip7702"}
                                  /\ t.signature = None
                                  /\ t.amount = U256Of(0) /\ t.data = <<>>
                                  /\ t.variant = "Eip7702" => Len(t.authorization_list) = 1}}
    \cup {<<EIP1559_TX_TYPE>> \o x : x \in NonCanonicalLists}
    \cup {<<EIP1559_TX_TYPE>> \o x \o t : x \in {<<192>>, <<193, 1>>}, t \in {<<0>>, <<192, 7>>}}
    \cup {<<>>, <<EIP1559_TX_TYPE>>, <<EIP1559_TX_TYPE, 128>>, <<EIP1559_TX_TYPE, 5>>,
          <<EIP1559_TX_TYPE, 195, 1>>}

\* stdin of sign-auth: encodings of unsigned authorizations, and others
SignAuthInputs ==
    {encode_rlp(ToRlp(a)) :
        a \in {t \in SignInputs : t.variant = "Authorization" /\ t.signature = None}}
    \cup {<<>>, <<128>>, <<248, 0>>, <<192, 0>>}

(***************************************************************************)
(* The state machine: each behaviour runs one scenario from the idle state *)
(***************************************************************************)
Unset == <<>>

Init ==
    /\ pc = "idle"
    /\ item = Unset
    /\ bytes = Unset
    /\ decoded = Unset
    /\ num = Unset
    /\ obj = Unset
    /\ signer = Unset
    /\ prim = Unset
    /\ hashed = Unset
    /\ signed = Unset
    /\ recovered = Unset
    /\ back = Unset
    /\ payload_in = Unset
    /\ rehashed = Unset
    /\ authorizers = Unset
    /\ failure = Unset
    /\ span = Unset
    /\ command_out = Unset
    /\ text = Unset
    /\ parsed = Unset

\* let bytes: Vec<u8> = item.into()
EncodeRlp(v) ==
    /\ pc = "idle"
    /\ item' = v
    /\ bytes' = encode_rlp(v)
    /\ pc' = "encoded"
    /\ UNCHANGED <<decoded, num, obj, signer, prim, hashed, signed, recovered,
                 back, payload_in, rehashed, authorizers, failure, span,
                 command_out, text, parsed>>

\* let item = Into::<RlpItem>::into(&mut VecDeque::from(bytes))
DecodeRlp ==
    /\ pc = "encoded"
    /\ decoded' = decode_rlp(bytes)
    /\ pc' = "roundtrip"
    /\ UNCHANGED <<item, bytes, num, obj, signer, prim, hashed, signed, recovered,
                 back, payload_in, rehashed, authorizers, failure, span,
                 command_out, text, parsed>>

\* the values whose encodings are cut short
TruncationInputs ==
    DataPool \cup ManyLists
        \cup {List(l) : l \in SeqsUpTo(ChildPool, 1)}
        \cup {List(<<List(<<c>>), c>>) : c \in ChildPool}

\* strict prefixes of the encoding of v: the last k octets lost, or only
\* the first k - 1 octets kept
Truncations(v) ==
    LET enc == encode_rlp(v)
        kept == {Len(enc) - k : k \in 1..MaxCut} \cup {k - 1 : k \in 1..MaxCut}
    IN  {Take(enc, n) : n \in {m \in kept : m >= 0 /\ m < Len(enc)}}

\* lists whose declared payload span ends inside their only child: the
\* child's encoding cut short by k octets (not all of it), under a list
\* prefix declaring exactly what is left of it, followed by t octets
\* outside the list
InnerTruncated(c) ==
    LET enc == encode_rlp(c)
    IN  {encode_list_payload(Take(enc, Len(enc) - k)) \o Fill(t, 1) :
            k \in {j \in 1..MaxCut : j < Len(enc)}, t \in {0, MaxCut}}

\* buffers that hold fewer octets than their prefixes declare, at top
\* level, in a list and in a list of a list
TruncatedBuffers ==
    LET inner == UNION {InnerTruncated(c) : c \in TruncationInputs}
    IN  UNION {Truncations(v) : v \in TruncationInputs}
            \cup inner
            \cup {encode_list_payload(buf) : buf \in inner}

\* decode_rlp on a buffer that holds fewer octets than its prefixes declare
DecodeTruncated(buf) ==
    /\ pc = "idle"
    /\ bytes' = buf
    /\ decoded' = decode_rlp(buf)
    /\ pc' = "truncated"
    /\ UNCHANGED <<item, num, obj, signer, prim, hashed, signed, recovered,
                 back, payload_in, rehashed, authorizers, failure, span,
                 command_out, text, parsed>>

\* decode_rlp on a cursor that holds the encoding e.buf of a value and
\* then the octets after
DecodeCursor(e, after) ==
    /\ pc = "idle"
    /\ item' = e.value
    /\ span' = Len(e.buf)
    /\ bytes' = e.buf \o after
    /\ decoded' = decode_rlp(e.buf \o after)
    /\ pc' = "cursor"
    /\ UNCHANGED <<num, obj, signer, prim, hashed, signed, recovered,
                 back, payload_in, rehashed, authorizers, failure,
                 command_out, text, parsed>>

\* decode-rlp with the encoding of v on stdin: the text it prints
DecodeRlpText(v) ==
    /\ pc = "idle"
    /\ item' = v
    /\ bytes' = encode_rlp(v)
    /\ decoded' = decode_rlp(encode_rlp(v))
    /\ text' = IF decode_rlp(encode_rlp(v)).kind = "panic" THEN <<>>
               ELSE fmt_rlp(decode_rlp(encode_rlp(v)).value, 0) \o <<"\n">>
    /\ pc' = "printed"
    /\ UNCHANGED <<num, obj, signer, prim, hashed, signed, recovered,
                 back, payload_in, rehashed, authorizers, failure, span,
                 command_out, parsed>>

\* encode-rlp with the printed text on stdin: the value it parses and the
\* encoding it prints
EncodeRlpText ==
    /\ pc = "printed"
    /\ parsed' = try_from_str(trim(text))
    /\ bytes' = IF try_from_str(trim(text)).kind = "panic" THEN <<>>
                ELSE encode_rlp(try_from_str(trim(text)).value)
    /\ pc' = "parsed"
    /\ UNCHANGED <<item, decoded, num, obj, signer, prim, hashed, signed, recovered,
                 back, payload_in, rehashed, authorizers, failure, span,
                 command_out, text>>

\* let item: RlpItem = U64::into(n)
ConvertU64(n) ==
    /\ pc = "idle"
    /\ num' = n
    /\ item' = U64ToRlp(n)
    /\ pc' = "u64"
    /\ UNCHANGED <<bytes, decoded, obj, signer, prim, hashed, signed, recovered,
                 back, payload_in, rehashed, authorizers, failure, span,
                 command_out, text, parsed>>

\* let item: RlpItem = U256::into(n)
ConvertU256(n) ==
    /\ pc = "idle"
    /\ num' = n
    /\ item' = U256ToRlp(n)
    /\ pc' = "u256"
    /\ UNCHANGED <<bytes, decoded, obj, signer, prim, hashed, signed, recovered,
                 back, payload_in, rehashed, authorizers, failure, span,
                 command_out, text, parsed>>

\* the integer's value encoded, decoded and converted back to its type
IntegerRoundTrip ==
    /\ pc \in {"u64", "u256"}
    /\ bytes' = encode_rlp(item)
    /\ decoded' = decode_rlp(encode_rlp(item))
    /\ back' = IF decode_rlp(encode_rlp(item)).kind = "panic"
               THEN decode_rlp(encode_rlp(item))
               ELSE IF pc = "u64" THEN RlpToU64(decode_rlp(encode_rlp(item)).value)
               ELSE RlpToU256(decode_rlp(encode_rlp(item)).value)
    /\ pc' = IF pc = "u64" THEN "u64 back" ELSE "u256 back"
    /\ UNCHANGED <<item, num, obj, signer, prim, hashed, signed, recovered,
                 payload_in, rehashed, authorizers, failure, span,
                 command_out, text, parsed>>

\* a bool converted to a value, encoded, decoded and converted back
BoolRoundTrip(b) ==
    /\ pc = "idle"
    /\ num' = b
    /\ item' = BoolToRlp(b)
    /\ bytes' = encode_rlp(BoolToRlp(b))
    /\ decoded' = decode_rlp(encode_rlp(BoolToRlp(b)))
    /\ back' = IF decode_rlp(encode_rlp(BoolToRlp(b))).kind = "panic"
               THEN decode_rlp(encode_rlp(BoolToRlp(b)))
               ELSE RlpToBool(decode_rlp(encode_rlp(BoolToRlp(b))).value)
    /\ pc' = "bool"
    /\ UNCHANGED <<obj, signer, prim, hashed, signed, recovered,
                 payload_in, rehashed, authorizers, failure, span,
                 command_out, text, parsed>>

\* let b: bool = v.into()
BoolFrom(v) ==
    /\ pc = "idle"
    /\ item' = v
    /\ back' = RlpToBool(v)
    /\ pc' = "as bool"
    /\ UNCHANGED <<bytes, decoded, num, obj, signer, prim, hashed, signed, recovered,
                 payload_in, rehashed, authorizers, failure, span,
                 command_out, text, parsed>>

\* let rlp: RlpItem = o.into(), and its encoding
ToValue(o) ==
    /\ pc = "idle"
    /\ obj' = o
    /\ item' = ToRlp(o)
    /\ bytes' = encode_rlp(ToRlp(o))
    /\ pc' = "value"
    /\ UNCHANGED <<decoded, num, signer, prim, hashed, signed, recovered,
                 back, payload_in, rehashed, authorizers, failure, span,
                 command_out, text, parsed>>

\* o.sign(key), the signing primitive answering p
Sign(o, key, p) ==
    /\ pc = "idle"
    /\ obj' = o
    /\ signer' = key
    /\ LET res == sign(o, key, p)
       IN  IF res.kind = "panic"
           THEN /\ pc' = "sign panicked"
                /\ UNCHANGED <<prim, hashed, signed>>
           ELSE /\ pc' = "signed"
                /\ prim' = p
                /\ hashed' = res.hashed
                /\ signed' = res.value
    /\ UNCHANGED <<item, bytes, decoded, num, recovered,
                 back, payload_in, rehashed, authorizers, failure, span,
                 command_out, text, parsed>>

\* encode-tx --tx-type 4 --signer key --authorizer keys[1] ...: the signed
\* transaction's envelope, or a failure and no output
SignWithAuthorizers(o, key, keys, prims) ==
    /\ pc = "idle"
    /\ obj' = o
    /\ signer' = key
    /\ authorizers' = keys
    /\ prim' = prims
    /\ LET res == sign_with_authorizers(o, key, keys, prims)
       IN  IF res.kind # "ok"
           THEN /\ failure' = res
                /\ pc' = "bulk failed"
                /\ UNCHANGED <<item, bytes, hashed, signed>>
           ELSE /\ signed' = res.value
                /\ hashed' = res.hashed
                /\ item' = ToRlp(res.value)
                /\ bytes' = <<EIP7702_TX_TYPE>> \o encode_rlp(ToRlp(res.value))
                /\ pc' = "bulk signed"
                /\ UNCHANGED failure
    /\ UNCHANGED <<decoded, num, recovered, back, payload_in, rehashed, span,
                 command_out, text, parsed>>

\* the envelope of the signed object: the encoding of its value with its
\* type octet inserted at the front
EncodeTx ==
    /\ pc = "signed"
    /\ item' = ToRlp(signed)
    /\ bytes' = <<MagicOf(signed)>> \o encode_rlp(ToRlp(signed))
    /\ pc' = "envelope"
    /\ UNCHANGED <<decoded, num, obj, signer, prim, hashed, signed, recovered,
                 back, payload_in, rehashed, authorizers, failure, span,
                 command_out, text, parsed>>

\* sign-tx --private-key pk with stdin on standard input
SignTx(stdin, pk, p) ==
    /\ pc = "idle"
    /\ payload_in' = stdin
    /\ signer' = pk
    /\ hashed' = sign_tx(stdin, pk, p).hashed
    /\ prim' = IF command_key(pk).kind = "ok" THEN p ELSE prim
    /\ IF sign_tx(stdin, pk, p).outcome.kind = "ok"
       THEN /\ bytes' = sign_tx(stdin, pk, p).outcome.bytes
            /\ pc' = "sign-tx"
            /\ UNCHANGED failure
       ELSE /\ failure' = sign_tx(stdin, pk, p).outcome
            /\ pc' = "sign-tx panicked"
            /\ UNCHANGED bytes
    /\ UNCHANGED <<item, decoded, num, obj, signed, recovered, back, rehashed, authorizers, span,
                 command_out, text, parsed>>

\* sign-auth --private-key pk --magic magic with stdin on standard input
SignAuth(stdin, pk, magic, p) ==
    /\ pc = "idle"
    /\ payload_in' = stdin
    /\ signer' = pk
    /\ hashed' = sign_auth(stdin, pk, magic, p).hashed
    /\ prim' = IF command_key(pk).kind = "ok" THEN p ELSE prim
    /\ IF sign_auth(stdin, pk, magic, p).outcome.kind = "ok"
       THEN /\ bytes' = sign_auth(stdin, pk, magic, p).outcome.bytes
            /\ pc' = "sign-auth"
            /\ UNCHANGED failure
       ELSE /\ failure' = sign_auth(stdin, pk, magic, p).outcome
            /\ pc' = "sign-auth panicked"
            /\ UNCHANGED bytes
    /\ UNCHANGED <<item, decoded, num, obj, signed, recovered, back, rehashed, authorizers, span,
                 command_out, text, parsed>>

\* sign-tx given the envelope of the transaction sign was given, unsigned,
\* with the same key and the same answer of the signing primitive
SignTxSame ==
    /\ pc = "envelope"
    /\ obj.variant \in {"Eip1559", "Eip7702"}
    /\ obj.signature = None
    /\ payload_in' = <<MagicOf(obj)>> \o encode_rlp(ToRlp(obj))
    /\ command_out' = sign_tx(<<MagicOf(obj)>> \o encode_rlp(ToRlp(obj)), signer, prim).outcome
    /\ pc' = "both signed"
    /\ UNCHANGED <<item, bytes, decoded, num, obj, signer, prim, hashed, signed, recovered,
                 back, rehashed, authorizers, failure, span, text, parsed>>

\* recover-address with the envelope, or what sign-tx printed, on stdin
RecoverAddress ==
    /\ pc \in {"envelope", "sign-tx"}
    /\ recovered' \in recover_address(bytes, [key |-> signer, hashed |-> hashed, p |-> prim])
    /\ rehashed' = recover_hashed(bytes)
    /\ pc' = IF pc = "envelope" THEN "recovered" ELSE "sign-tx recovered"
    /\ UNCHANGED <<item, bytes, decoded, num, obj, signer, prim, hashed, signed,
                 back, payload_in, authorizers, failure, span,
                 command_out, text, parsed>>

\* recover-address with octets on stdin that no signing made
RecoverRaw(buf) ==
    /\ pc = "idle"
    /\ bytes' = buf
    /\ recovered' \in recover_address(buf, NoSigning)
    /\ rehashed' = recover_hashed(buf)
    /\ pc' = "recovered raw"
    /\ UNCHANGED <<item, decoded, num, obj, signer, prim, hashed, signed,
                 back, payload_in, authorizers, failure, span,
                 command_out, text, parsed>>

Next ==
    \/ \E v \in Values : EncodeRlp(v)
    \/ DecodeRlp
    \/ \E buf \in TruncatedBuffers : DecodeTruncated(buf)
    \/ \E e \in Canonical \cup NonCanonical : \E after \in Followers : DecodeCursor(e, after)
    \/ \E v \in TextValues : DecodeRlpText(v)
    \/ EncodeRlpText
    \/ \E n \in U64Inputs : ConvertU64(n)
    \/ \E n \in U256Inputs : ConvertU256(n)
    \/ IntegerRoundTrip
    \/ \E b \in BOOLEAN : BoolRoundTrip(b)
    \/ \E v \in BoolSources : BoolFrom(v)
    \/ \E o \in Objects : ToValue(o)
    \/ \E o \in SignInputs : \E key \in Keys \cup BadKeys : \E p \in PrimResults : Sign(o, key, p)
    \/ \E o \in BulkInputs : \E key \in Keys : \E keys \in SeqsUpTo(Keys, MaxAuthorizers) :
           \E prims \in PrimMaps : SignWithAuthorizers(o, key, keys, prims)
    \/ EncodeTx
    \/ \E stdin \in SignTxInputs : \E pk \in Keys \cup BadKeys : \E p \in CommandPrims :
           SignTx(stdin, pk, p)
    \/ \E stdin \in SignAuthInputs : \E pk \in Keys \cup BadKeys : \E p \in CommandPrims :
           SignAuth(stdin, pk, AUTHORIZATION_MAGIC, p)
    \/ SignTxSame
    \/ RecoverAddress
    \/ \E buf \in RawEnvelopes : RecoverRaw(buf)

Spec == Init /\ [][Next]_vars

(***************************************************************************)
(* Reference definitions used by the claims                                *)
(***************************************************************************)
\* the minimal big-endian representation of a natural: no leading zero
\* octet, and the empty string for 0
RECURSIVE MinimalBE(_)
MinimalBE(n) == IF n = 0 THEN <<>> ELSE Append(MinimalBE(n \div 256), n % 256)

\* the reference rule for a byte string
RefBytes(b) ==
    IF Len(b) = 1 /\ b[1] <= 127 THEN <<b[1]>>
    ELSE IF Len(b) <= 55 THEN <<128 + Len(b)>> \o b
    ELSE <<183 + Len(MinimalBE(Len(b)))>> \o MinimalBE(Len(b)) \o b

\* the reference rule for a list whose children encode to the octets P
RefList(P) ==
    IF Len(P) <= 55 THEN <<192 + Len(P)>> \o P
    ELSE <<247 + Len(MinimalBE(Len(P)))>> \o MinimalBE(Len(P)) \o P

RECURSIVE Concat(_)
Concat(ss) == IF ss = <<>> THEN <<>> ELSE Head(ss) \o Concat(Tail(ss))

\* the value of a big-endian octet string
RECURSIVE BEValue(_)
BEValue(s) == IF s = <<>> THEN 0 ELSE BEValue(Take(s, Len(s) - 1)) * 256 + s[Len(s)]

\* The first prefix of a non-empty buffer declares more octets than the
\* buffer holds after it: its length-of-length field is cut, or its payload.
DeclaresMoreThanHeld(buf) ==
    LET b == buf[1]
        after == Len(buf) - 1
        lol == IF b \in 184..191 THEN b - 183 ELSE IF b \in 248..255 THEN b - 247 ELSE 0
    IN  /\ b >= 128
        /\ \/ lol > after
           \/ /\ lol = 0
              /\ (IF b <= 183 THEN b - 128 ELSE b - 192) > after
           \/ /\ lol > 0
              /\ lol <= after
              /\ BEValue(SubSeq(buf, 2, 1 + lol)) > after - lol

(***************************************************************************)
(* Claims                                                                  *)
(***************************************************************************)
\* C1: decoding the octets produced by encode(v) returns a value equal to v
\* and leaves the cursor empty.
C1_RoundTrip ==
    pc = "roundtrip" =>
        /\ decoded.kind = "ok"
        /\ decoded.value = item
        /\ decoded.rest = <<>>

\* a nested list with a long-form payload went through encode and decode
C1_Witness ==
    /\ pc = "roundtrip"
    /\ item.tag = "List"
    /\ Len(item.list) = 3
    /\ item.list[1].tag = "List"
    /\ bytes[1] = 248
    /\ decoded.kind = "ok"

\* C2: encode of a byte string b is the reference rule: the octet itself
\* when len(b) = 1 and b[0] <= 0x7F, else 0x80+len ++ b up to 55 octets,
\* else 0xB7+k ++ minimal big-endian length ++ b; 55 octets get prefix 0xB7,
\* 56 octets get 0xB8 0x38.
C2_EncodeBytes ==
    (pc \in {"encoded", "roundtrip"} /\ item.tag = "Data") =>
        LET b == item.data
        IN  /\ bytes = RefBytes(b)
            /\ (Len(b) = 0 => bytes = <<128>>)
            /\ (Len(b) = 1 /\ b[1] >= 128 => bytes = <<129, b[1]>>)
            /\ (Len(b) = 55 => bytes[1] = 183 /\ Len(bytes) = 56)
            /\ (Len(b) = 56 => bytes[1] = 184 /\ bytes[2] = 56 /\ Len(bytes) = 58)

\* a 56-octet string was encoded in the long form
C2_Witness ==
    /\ pc = "encoded"
    /\ item.tag = "Data"
    /\ Len(item.data) = 56
    /\ bytes[1] = 184

\* C3: encode of a list is the reference rule over the concatenation P of
\* its children's encodings: 0xC0+len(P) ++ P up to 55 octets, else
\* 0xF7+k ++ minimal big-endian len(P) ++ P; the choice depends on len(P),
\* not on the number of children.
C3_EncodeList ==
    (pc \in {"encoded", "roundtrip"} /\ item.tag = "List") =>
        LET P == Concat([i \in 1..Len(item.list) |-> encode_rlp(item.list[i])])
        IN  /\ bytes = RefList(P)
            /\ (Len(P) = 0 => bytes = <<192>>)
            /\ (Len(P) = 55 => bytes[1] = 247 /\ Len(bytes) = 56)
            /\ (Len(P) = 56 => bytes[1] = 248 /\ bytes[2] = 56 /\ Len(bytes) = 58)
            /\ (Len(P) <= 55 <=> bytes[1] <= 247)

\* a list of two children was encoded in the long form: its payload has 56
\* octets or more
C3_Witness ==
    /\ pc = "encoded"
    /\ item.tag = "List"
    /\ Len(item.list) = 2
    /\ bytes[1] = 248
    /\ bytes[2] = 56

\* C4: decode fails on a zero-length buffer (EmptyInput: the panic of
\* expect("no more bytes")) and fails whenever fewer octets remain than a
\* length-of-length or a payload length declares, at top level or inside a
\* list (TruncatedInput: the panic of drain); it never returns a value
\* then.
C4_Truncated ==
    /\ pc = "truncated" =>
        /\ decoded.kind = "panic"
        /\ (bytes = <<>> <=> decoded.msg = NoMoreBytes)
        /\ (bytes # <<>> <=> decoded.msg = DrainOutOfRange)
    /\ (pc \in {"truncated", "roundtrip"} /\ bytes # <<>> /\ DeclaresMoreThanHeld(bytes)) =>
        /\ decoded.kind = "panic"
        /\ decoded.msg = DrainOutOfRange

\* a list whose span is fully held, with octets after it, but whose child
\* declares more than the span holds, was refused
C4_Witness ==
    /\ pc = "truncated"
    /\ bytes # <<>>
    /\ bytes[1] \in 193..247
    /\ ~DeclaresMoreThanHeld(bytes)
    /\ decoded.kind = "panic"
    /\ decoded.msg = DrainOutOfRange

\* the zero-length buffer was refused
C4_WitnessEmpty ==
    /\ pc = "truncated"
    /\ bytes = <<>>
    /\ decoded.kind = "panic"

\* the digits of an integer without their leading zero octets
Minimal(d) ==
    LET nz == {i \in 1..Len(d) : d[i] # 0}
    IN  IF nz = {} THEN <<>>
        ELSE SubSeq(d, CHOOSE i \in nz : \A j \in nz : i <= j, Len(d))

\* C5: recover on type_byte ++ encode(Value of sign(transaction, key))
\* succeeds with the address of the key and the hash computed inside sign,
\* for every signature the signing primitive can return.
C5_SignRecoverInverse ==
    pc = "recovered" =>
        /\ recovered.kind = "ok"
        /\ recovered.address = AddressOf(signer)
        /\ recovered.hash = Keccak256(hashed)

\* C6: the value of a transaction is a list of chain id, nonce,
\* priority-fee cap, fee cap, gas limit, destination, amount, data, access
\* list, the authorization list for EIP-7702 only, then y_parity, r, s iff
\* the signature is present: 9 or 12 children for EIP-1559, 10 or 13 for
\* EIP-7702.
C6_FieldOrder ==
    (pc = "value" /\ obj.variant \in {"Eip1559", "Eip7702"}) =>
        LET c == item.list
            base == IF obj.variant = "Eip7702" THEN 10 ELSE 9
        IN  /\ item.tag = "List"
            /\ Len(c) = IF obj.signature.some THEN base + 3 ELSE base
            /\ Len(c) \in (IF obj.variant = "Eip1559" THEN {9, 12} ELSE {10, 13})
            /\ c[1] = Data(Minimal(obj.chain_id.digits))
            /\ c[2] = Data(Minimal(obj.nonce.digits))
            /\ c[3] = Data(Minimal(obj.max_priority_fee_per_gas.digits))
            /\ c[4] = Data(Minimal(obj.max_fee_per_gas.digits))
            /\ c[5] = Data(Minimal(obj.gas_limit.digits))
            /\ c[6] = Data(obj.destination)
            /\ c[7] = Data(Minimal(obj.amount.digits))
            /\ c[8] = Data(obj.data)
            /\ c[9] = AccessListToRlp(obj.access_list)
            /\ obj.variant = "Eip7702" => c[10] = AuthorizationListToRlp(obj.authorization_list)
            /\ obj.signature.some =>
                /\ c[base + 1] = Data(IF obj.signature.val.y_parity THEN <<1>> ELSE <<>>)
                /\ c[base + 2] = Data(Minimal(obj.signature.val.r.digits))
                /\ c[base + 3] = Data(Minimal(obj.signature.val.s.digits))

\* a signed EIP-7702 transaction was converted to a list of 13 children
C6_Witness ==
    /\ pc = "value"
    /\ obj.variant = "Eip7702"
    /\ obj.signature.some
    /\ Len(item.list) = 13

\* C7: sign hashes exactly prefix ++ encode(value of the object with its
\* signature cleared), the prefix being 2 for EIP-1559, 4 for EIP-7702 and
\* 5 for an authorization, whether or not the input carried a signature,
\* and returns the input with only its signature changed, to a present one.
C7_SigningPayload ==
    pc = "signed" =>
        LET prefix == IF obj.variant = "Eip1559" THEN 2
                      ELSE IF obj.variant = "Eip7702" THEN 4 ELSE 5
        IN  /\ hashed = <<prefix>> \o encode_rlp(ToRlp([obj EXCEPT !.signature = None]))
            /\ signed.signature.some
            /\ signed = [obj EXCEPT !.signature = signed.signature]

\* an EIP-1559 transaction that already carried a signature was signed
C7_Witness ==
    /\ pc = "signed"
    /\ obj.variant = "Eip1559"
    /\ obj.signature.some
    /\ signed.signature # obj.signature

\* C8: the byte string an integer converts to is its minimal big-endian
\* representation: it denotes the integer, its first octet is non-zero when
\* it has one, and 0 converts to the empty string.
C8_Minimality ==
    pc \in {"u64", "u256"} =>
        LET d == item.data
        IN  /\ item.tag = "Data"
            /\ Len(d) <= num.width
            /\ Fill(num.width - Len(d), 0) \o d = num.digits
            /\ d # <<>> => d[1] # 0
            /\ num.digits = Fill(num.width, 0) => d = <<>>

\* a 256-bit integer with two leading zero octets or more, and zero octets
\* after them, was converted
C8_Witness ==
    /\ pc = "u256"
    /\ num.digits[1] = 0
    /\ num.digits[2] = 0
    /\ num.digits[32] = 0
    /\ item.data # <<>>

\* the 64-bit integer 0 was converted
C8_WitnessZero ==
    /\ pc = "u64"
    /\ num.digits = Fill(8, 0)
    /\ item = Data(<<>>)

\* C9: in the value of a transaction the destination and every access-list
\* address are byte strings of exactly 20 octets, every storage key one of
\* exactly 32 octets, every authorization address one of exactly 20, all
\* with their leading zero octets, and each access-list entry is
\* List[Bytes(address), List[storage keys in order]].
C9_FixedWidth ==
    /\ (pc = "value" /\ obj.variant \in {"Eip1559", "Eip7702"}) =>
        LET c == item.list
        IN  /\ c[6] = Data(obj.destination)
            /\ Len(c[6].data) = 20
            /\ c[9].tag = "List"
            /\ Len(c[9].list) = Len(obj.access_list)
            /\ \A i \in 1..Len(obj.access_list) :
                LET e == c[9].list[i]
                    a == obj.access_list[i]
                IN  /\ e.tag = "List"
                    /\ Len(e.list) = 2
                    /\ e.list[1] = Data(a.address)
                    /\ Len(e.list[1].data) = 20
                    /\ e.list[2].tag = "List"
                    /\ Len(e.list[2].list) = Len(a.storage_keys)
                    /\ \A j \in 1..Len(a.storage_keys) :
                        /\ e.list[2].list[j] = Data(a.storage_keys[j])
                        /\ Len(e.list[2].list[j].data) = 32
            /\ obj.variant = "Eip7702" =>
                \A i \in 1..Len(obj.authorization_list) :
                    /\ c[10].list[i].list[2] = Data(obj.authorization_list[i].address)
                    /\ Len(c[10].list[i].list[2].data) = 20
    /\ (pc = "value" /\ obj.variant = "Authorization") =>
        /\ item.list[2] = Data(obj.address)
        /\ Len(item.list[2].data) = 20

\* an EIP-7702 transaction whose destination, an access-list address, a
\* storage key and an authorization address start with zero octets was
\* converted
C9_Witness ==
    /\ pc = "value"
    /\ obj.variant = "Eip7702"
    /\ obj.destination[1] = 0
    /\ Len(obj.access_list) = 2
    /\ obj.access_list[1].address[1] = 0
    /\ obj.access_list[2].storage_keys[1][1] = 0
    /\ Len(obj.authorization_list) = 2
    /\ obj.authorization_list[2].address[1] = 0
    /\ item.list[6].data[1] = 0

\* the third child of authorization a's value v: a list, empty when the
\* nonce is absent, of the one minimal byte string of the nonce otherwise
NonceChildAsClaimed(a, v) ==
    /\ v.tag = "List"
    /\ Len(v.list) >= 3
    /\ v.list[3].tag = "List"
    /\ ~a.nonce.some =>
        /\ v.list[3].list = <<>>
        /\ encode_rlp(v.list[3]) = <<192>>
    /\ a.nonce.some =>
        /\ v.list[3].list = <<Data(Minimal(a.nonce.val.digits))>>
        /\ encode_rlp(v.list[3]) # <<192>>
        /\ a.nonce.val.digits = Fill(8, 0) => encode_rlp(v.list[3]) = <<193, 128>>

\* C10: in the value of every authorization the third child is a list: the
\* empty list when the nonce is absent, a list of exactly the minimal
\* big-endian nonce when it is present, so an absent nonce encodes as 0xC0
\* and a nonce of 0 as 0xC1 0x80.
C10_OptionalNonce ==
    /\ (pc = "value" /\ obj.variant = "Authorization") => NonceChildAsClaimed(obj, item)
    /\ (pc = "value" /\ obj.variant = "Eip7702") =>
        \A i \in 1..Len(obj.authorization_list) :
            NonceChildAsClaimed(obj.authorization_list[i], item.list[10].list[i])

\* an authorization whose nonce is present and 0 was converted
C10_Witness ==
    /\ pc = "value"
    /\ obj.variant = "Authorization"
    /\ obj.nonce = Some(U64Of(0))
    /\ encode_rlp(item.list[3]) = <<193, 128>>

\* an authorization without nonce was converted
C10_WitnessAbsent ==
    /\ pc = "value"
    /\ obj.variant = "Authorization"
    /\ obj.nonce = None
    /\ item.list[3] = List(<<>>)

\* C11. A bool converts to the empty string (false) or to the one octet
\* 0x01 (true), and comes back unchanged through encode, decode and the
\* conversion to bool; the conversion to bool of any other value (a string
\* that is neither of the two, a list) is rejected.
C11_Boolean ==
    /\ pc = "bool" =>
          /\ item = Data(IF num THEN <<1>> ELSE <<>>)
          /\ back = [kind |-> "ok", value |-> num]
    /\ pc = "as bool" =>
          /\ item = Data(<<>>) => back = [kind |-> "ok", value |-> FALSE]
          /\ item = Data(<<1>>) => back = [kind |-> "ok", value |-> TRUE]
          /\ item \notin {Data(<<>>), Data(<<1>>)} => back.kind = "panic"

C11_Witness == pc = "bool" /\ num = TRUE /\ bytes = <<1>> /\ back.kind = "ok"

C11_WitnessRejected ==
    pc = "as bool" /\ item \in {Data(<<0>>), Data(<<2>>)} /\ back.kind = "panic"

\* C12. An integer of either width, zero and the maximum included,
\* converted to a value, encoded, decoded and converted back to its type
\* is the integer it was.
C12_IntegerRoundTrip ==
    pc \in {"u64 back", "u256 back"} => back = [kind |-> "ok", value |-> num]

C12_Witness ==
    /\ pc = "u256 back"
    /\ num = U256(Fill(32, 255))
    /\ back = [kind |-> "ok", value |-> num]

C12_WitnessZero == pc = "u64 back" /\ num = U64(Fill(8, 0)) /\ bytes = <<128>>

\* C13. Signing an EIP-7702 transaction together with per-authorization
\* keys signs every entry that lacks a signature with the key at the same
\* position among the supplied keys and leaves the other entries as they
\* are; when the number of keys is not the number of entries lacking a
\* signature, it fails with AuthorizerCountMismatch and emits nothing:
\* no signed list, no envelope.
C13_AuthorizationCount ==
    /\ pc \in {"bulk signed", "bulk failed"} =>
          (pc = "bulk failed"
              <=> Len(authorizers) # Cardinality(Unsigned(obj.authorization_list)))
    /\ pc = "bulk failed" =>
          /\ failure = AuthorizerCountMismatch
          /\ signed = Unset /\ bytes = Unset /\ item = Unset
    /\ pc = "bulk signed" =>
          /\ Len(signed.authorization_list) = Len(obj.authorization_list)
          /\ \A i \in 1..Len(obj.authorization_list) :
                LET entry == obj.authorization_list[i]
                    k == authorizers[Rank(obj.authorization_list, i)]
                IN  signed.authorization_list[i] =
                        IF entry.signature # None THEN entry
                        ELSE [entry EXCEPT !.signature =
                                  Some(Signature(is_y_odd(prim[k].recovery_id),
                                                 U256_from_be_slice(prim[k].r),
                                                 U256_from_be_slice(prim[k].s)))]
          /\ bytes = <<EIP7702_TX_TYPE>> \o encode_rlp(ToRlp(signed))

C13_Witness ==
    /\ pc = "bulk signed"
    /\ Len(authorizers) = 2
    /\ authorizers[1] # authorizers[2]
    /\ Cardinality(Unsigned(obj.authorization_list)) = 2
    /\ Unsigned(signed.authorization_list) = {}

C13_WitnessMismatch ==
    /\ pc = "bulk failed"
    /\ Len(authorizers) = 1
    /\ Cardinality(Unsigned(obj.authorization_list)) = 2

C14_WitnessSign == pc = "sign panicked" /\ Len(signer) = 31 /\ obj.variant = "Authorization"

C14_WitnessSignAuth == pc = "sign-auth panicked" /\ Len(signer) = 31 /\ payload_in # <<>>

\* the shapes recover-address has no signature to take from: no list, a
\* list of fewer than three children, a list among the last three children
MalformedEnvelope(v) ==
    \/ v.tag # "List"
    \/ Len(v.list) < 3
    \/ \E i \in (Len(v.list) - 2)..Len(v.list) : v.list[i].tag = "List"

\* C15. recover-address fails at the shape of the payload, before it
\* makes any hash or address, whenever the value decoded after the type
\* octet is not a list, is a list of 0, 1 or 2 children, or has a list
\* among its last three children; a missing child is never taken for an
\* empty signature component.
C15_RecoverShape ==
    (pc \in {"recovered", "sign-tx recovered", "recovered raw"}
        /\ bytes # <<>>
        /\ decode_rlp(Tail(bytes)).kind = "ok"
        /\ MalformedEnvelope(decode_rlp(Tail(bytes)).value))
    => /\ recovered \in {Panic("not a list"), Panic("len - 3"), Panic("not data")}
       /\ rehashed = None

C15_Witness ==
    /\ pc = "recovered raw"
    /\ decode_rlp(Tail(bytes)).value.tag = "List"
    /\ Len(decode_rlp(Tail(bytes)).value.list) = 2
    /\ recovered = Panic("len - 3")

C15_WitnessList ==
    /\ pc = "recovered raw"
    /\ decode_rlp(Tail(bytes)).value.tag = "List"
    /\ Len(decode_rlp(Tail(bytes)).value.list) = 5
    /\ recovered = Panic("not data")

C15_WitnessWellFormed == pc = "recovered raw" /\ recovered.kind = "ok" /\ rehashed # None

\* C16. Every failure of the core (decode of an empty or truncated
\* buffer, a malformed envelope in recover, a private key of the wrong
\* length, recovery parameters the curve refuses) reaches the caller as a
\* failure result it can inspect; none aborts the computation.
C16_ExplicitFailures ==
    /\ pc \in {"truncated", "cursor", "roundtrip"} => decoded.kind # "panic"
    /\ pc \in {"recovered", "sign-tx recovered", "recovered raw"} => recovered.kind # "panic"
    /\ pc \in {"sign-tx panicked", "sign-auth panicked", "bulk failed"} => failure.kind # "panic"
    /\ pc # "sign panicked"

\* a short list whose span is held, with octets after it, whose first
\* child declares more octets than the span has left but no more than the
\* buffer holds
ChildOverrunsSpan(buf) ==
    /\ buf # <<>>
    /\ buf[1] \in 193..247
    /\ buf[1] - 192 < Len(buf) - 1
    /\ buf[2] \in 129..191
    /\ decode_rlp(SubSeq(buf, 2, 1 + (buf[1] - 192))).kind = "panic"
    /\ decode_rlp(Tail(buf)).kind = "ok"

\* C17. decode reads nothing outside the span of the value: on a cursor
\* holding an encoding of a value and then further octets it returns that
\* value and leaves exactly the further octets, so the octets after a
\* list's span never become children of the list; and a child that
\* declares more than the list's span has left makes decode fail, even
\* though the buffer holds that many octets after the span.
C17_SpanOnly ==
    /\ pc = "cursor" =>
          /\ decoded.kind = "ok"
          /\ decoded.value = item
          /\ decoded.rest = Drop(bytes, span)
    /\ (pc = "truncated" /\ ChildOverrunsSpan(bytes)) => decoded.kind = "panic"

C17_Witness ==
    /\ pc = "cursor"
    /\ item.tag = "List"
    /\ Len(item.list) = 2
    /\ span < Len(bytes)
    /\ decoded.kind = "ok"
    /\ decoded.rest = <<128, 192>>

C17_WitnessOverrun ==
    /\ pc = "truncated"
    /\ ChildOverrunsSpan(bytes)
    /\ decoded = Panic(DrainOutOfRange)

\* the forms no encoder produces: the two-octet form of a single octet
\* below 0x80, a long form whose length field starts with a zero octet or
\* denotes fewer than 56 octets
NonCanonicalForm(x) ==
    \/ x[1] = 129 /\ x[2] <= 127
    \/ /\ x[1] \in (184..191) \cup (248..255)
       /\ \/ x[2] = 0
          \/ x[1] \in {184, 248} /\ x[2] < 56

\* C18. decode accepts well-formed encodings that are not canonical and
\* returns the value their declared lengths describe: 0x81 b with
\* b <= 0x7F gives the string b, a long-form prefix whose length field has
\* leading zero octets or denotes fewer than 56 octets gives the payload of
\* that length; encoding the decoded value does not give such an input
\* back, while it gives back every input that the encoder produced.
C18_Lenient ==
    /\ (pc = "cursor" /\ Take(bytes, span) # encode_rlp(item)) =>
          /\ decoded.kind = "ok"
          /\ decoded.value = item
    /\ (pc = "cursor" /\ NonCanonicalForm(Take(bytes, span))) =>
          /\ decoded.kind = "ok"
          /\ bytes[1] = 129 => decoded.value = Data(<<bytes[2]>>)
          /\ bytes[1] \in 184..191 =>
                /\ decoded.value.tag = "Data"
                /\ Len(decoded.value.data) = BEValue(SubSeq(bytes, 2, 1 + (bytes[1] - 183)))
                /\ decoded.value.data = SubSeq(bytes, 2 + (bytes[1] - 183), span)
          /\ bytes[1] \in 248..255 =>
                /\ decoded.value.tag = "List"
                /\ Len(decoded.value.list) = BEValue(SubSeq(bytes, 2, 1 + (bytes[1] - 247)))
          /\ encode_rlp(decoded.value) # Take(bytes, span)
    /\ (pc = "cursor" /\ Take(bytes, span) = encode_rlp(item)) =>
          /\ decoded.kind = "ok"
          /\ encode_rlp(decoded.value) = Take(bytes, span)
    /\ pc = "roundtrip" =>
          /\ decoded.kind = "ok"
          /\ encode_rlp(decoded.value) = bytes

C18_Witness ==
    /\ pc = "cursor"
    /\ bytes[1] = 185 /\ bytes[2] = 0 /\ bytes[3] = 55
    /\ decoded.kind = "ok"
    /\ decoded.value = Data(Fill(55, 1))
    /\ encode_rlp(decoded.value)[1] = 183

C18_WitnessSingle ==
    /\ pc = "cursor"
    /\ Take(bytes, span) = <<129, 127>>
    /\ decoded.kind = "ok"
    /\ decoded.value = Data(<<127>>)

C18_WitnessList ==
    /\ pc = "cursor"
    /\ bytes[1] = 248 /\ bytes[2] = 0
    /\ decoded.kind = "ok"
    /\ decoded.value = List(<<>>)

\* C19. Whatever sign-tx accepts on stdin (a type octet, then octets that
\* decode to a list, canonical or not, followed by further octets or not),
\* the octets recover-address hashes when given what sign-tx printed are
\* the octets sign-tx hashed.
C19_SameHash ==
    pc = "sign-tx recovered" => rehashed = Some(hashed)

\* the y child of what a signing command printed: the third child from
\* the end of the list
PrintedY(rlp) ==
    LET l == decode_rlp(rlp).value.list
    IN  l[Len(l) - 2]

\* C20. Whichever recovery id (0, 1, 2 or 3) the signing primitive
\* returns, sign_payload, sign-tx and sign-auth all emit y_parity true
\* (the string 0x01) when its low bit is set and false (the empty string)
\* when it is not.
C20_YParity ==
    /\ pc = "signed" => signed.signature.val.y_parity = (prim.recovery_id % 2 = 1)
    /\ pc = "sign-tx" =>
          PrintedY(Tail(bytes)) = Data(IF prim.recovery_id % 2 = 1 THEN <<1>> ELSE <<>>)
    /\ pc = "sign-auth" =>
          PrintedY(bytes) = Data(IF prim.recovery_id % 2 = 1 THEN <<1>> ELSE <<>>)

\* the r and s children of an envelope: the last two children of its list
EnvelopeRS(envelope) ==
    LET l == decode_rlp(Tail(envelope)).value.list
    IN  <<l[Len(l) - 1].data, l[Len(l)].data>>

\* C21. For every unsigned transaction, key and answer (r, s, recovery
\* id) of the signing primitive, what sign-tx prints for the type octet
\* and the encoding of the transaction's value is, octet for octet, the
\* type octet and the encoding of the value of the transaction sign
\* returns; in both, r and s are strings without a leading zero octet.
C21_PathsAgree ==
    pc = "both signed" =>
        /\ command_out.kind = "ok"
        /\ command_out.bytes = bytes
        /\ \A i \in 1..2 :
              /\ EnvelopeRS(bytes)[i] = Minimal(EnvelopeRS(bytes)[i])
              /\ EnvelopeRS(command_out.bytes)[i] = Minimal(EnvelopeRS(command_out.bytes)[i])

\* some string inside v starts with a zero octet
RECURSIVE StartsWithZero(_)
StartsWithZero(v) ==
    IF v.tag = "Data" THEN v.data # <<>> /\ v.data[1] = 0
    ELSE \E i \in 1..Len(v.list) : StartsWithZero(v.list[i])

\* v with every string cut down to what follows its leading zero octets
RECURSIVE WithoutLeadingZeros(_)
WithoutLeadingZeros(v) ==
    IF v.tag = "Data" THEN Data(Minimal(v.data))
    ELSE List([i \in 1..Len(v.list) |-> WithoutLeadingZeros(v.list[i])])

\* C22. Parsing, as encode-rlp does, the text decode-rlp prints for a
\* value gives the value back exactly when no string inside it starts
\* with a zero octet; a string with leading zero octets is read back
\* without them, and the lists, the order of their children and every
\* other string are kept.
C22_TextRoundTrip ==
    pc = "parsed" =>
        /\ parsed.kind = "ok"
        /\ parsed.value = WithoutLeadingZeros(item)
        /\ (parsed.value = item <=> ~StartsWithZero(item))

C22_Witness ==
    /\ pc = "parsed"
    /\ item.tag = "List"
    /\ Len(item.list) = 3
    /\ item.list[1].list = <<Data(<<0, 1>>), Data(<<10, 188>>)>>
    /\ parsed.kind = "ok"
    /\ parsed.value.list[1].list = <<Data(<<1>>), Data(<<10, 188>>)>>

C22_WitnessAddress ==
    /\ pc = "parsed"
    /\ item = Data(<<0>> \o Fill(19, 171))
    /\ parsed.value = Data(Fill(19, 171))

C22_WitnessSame ==
    /\ pc = "parsed"
    /\ item = List(<<Data(<<10, 188>>), Data(<<>>)>>)
    /\ parsed.value = item

====
